---- MODULE Spec2Model ----
(***************************************************************************)
(* A model of the network-resource graph builder (NetworkDataProcessor in  *)
(* src/src/network_processor.py) and of the service that drives it         *)
(* (NetworkModelingService in src/src/api_wrapper.py).                     *)
(*                                                                         *)
(* Python strings are sequences of one-character strings, so that          *)
(* formatting, concatenation, split('#'), split('_') and endswith('Ref')   *)
(* are computed as the code computes them.  JSON values are records        *)
(* tagged by "t": a string, a list or a dict (keys in insertion order).    *)
(***************************************************************************)
EXTENDS Naturals, Sequences, FiniteSets, TLC

VARIABLES
    dir,            \* the directory "data/output": input_dir and output_dir at once,
                    \* a sequence of files in os.listdir order
    relationships,  \* self.relationships of the service's processor
    resource_cache, \* self.resource_cache of the service's processor
    g,              \* self.g, the rdflib graph: a set of triples
    clock,          \* number of generate requests served so far (datetime.now())
    ret,            \* outcome of the last operation
    cwd             \* the working directory of the process, a path from the root

vars == <<dir, relationships, resource_cache, g, clock, ret, cwd>>

----------------------------------------------------------------------------
(* Strings *)

S_kind      == <<"k","i","n","d">>
S_namespace == <<"n","a","m","e","s","p","a","c","e">>
S_name      == <<"n","a","m","e">>
S_spec      == <<"s","p","e","c">>
S_metadata  == <<"m","e","t","a","d","a","t","a">>
S_documents == <<"d","o","c","u","m","e","n","t","s">>
S_Ref       == <<"R","e","f">>
S_rel       == <<"r","e","l","_">>
S_us        == <<"_">>

\* str.endswith
EndsWith(s, suf) ==
    /\ Len(s) >= Len(suf)
    /\ SubSeq(s, Len(s) - Len(suf) + 1, Len(s)) = suf

\* `sub in s` for two Python strings
IsSubstring(sub, s) ==
    \E i \in 1..(Len(s) + 1) :
        /\ i + Len(sub) - 1 <= Len(s)
        /\ SubSeq(s, i, i + Len(sub) - 1) = sub

\* str.split(c) for a one-character separator c
RECURSIVE Split(_, _)
Split(s, c) ==
    IF \A i \in 1..Len(s) : s[i] # c
    THEN <<s>>
    ELSE LET i == CHOOSE k \in 1..Len(s) :
                     s[k] = c /\ \A m \in 1..(k - 1) : s[m] # c
         IN  <<SubSeq(s, 1, i - 1)>> \o Split(SubSeq(s, i + 1, Len(s)), c)

\* c.join(parts)
RECURSIVE Join(_, _)
Join(parts, c) ==
    IF parts = <<>> THEN <<>>
    ELSE IF Len(parts) = 1 THEN parts[1]
    ELSE parts[1] \o <<c>> \o Join(Tail(parts), c)

----------------------------------------------------------------------------
(* JSON values *)

Str(s)           == [t |-> "str", s |-> s]
List(items)      == [t |-> "list", items |-> items]
Dict(keys, vals) == [t |-> "dict", keys |-> keys, vals |-> vals]

\* Python's None
None == [t |-> "none"]

\* a JSON number
Num == [t |-> "num"]

\* the text of a file that json.load cannot parse
Unparseable == [t |-> "invalid"]

\* what a loop over input units has in hand where load_json_file raised
LoadError == [t |-> "error"]

\* isinstance(v, dict)
IsDict(v) == v.t = "dict"

\* `k in v`, k a Python string: key test on a dict, substring test on a
\* string, membership test on a list
In(k, v) ==
    CASE v.t = "dict" -> \E i \in 1..Len(v.keys) : v.keys[i] = k
      [] v.t = "str"  -> IsSubstring(k, v.s)
      [] v.t = "list" -> \E i \in 1..Len(v.items) : v.items[i] = Str(k)
      [] OTHER        -> FALSE

\* d[k] for a dict d that has k
Get(d, k) == d.vals[CHOOSE i \in 1..Len(d.keys) : d.keys[i] = k]

\* the text an f-string puts for a value; the model's identity fields are
\* always JSON strings
Fmt(v) == v.s

\* all(k in resource for k in ['kind', 'namespace', 'name'])
HasIdentity(resource) ==
    \A k \in {S_kind, S_namespace, S_name} : In(k, resource)

\* the identity test and the reads resource['kind'], ... that follow it
\* raise: `k in resource` is a TypeError for a value that is no container,
\* and resource['kind'] one for a string or a list that passed the test
RecordRaises(resource) ==
    \/ resource = LoadError
    \/ resource.t \notin {"dict", "str", "list"}
    \/ HasIdentity(resource) /\ ~IsDict(resource)

----------------------------------------------------------------------------
(* Identity Resolver *)

\* self.lla = Namespace("http://lla.com/ontology#"): a fixed prefix whose only
\* "#" is its last character, written here as "lla:#"
LLA == <<"l","l","a",":","#">>

\* f"{kind}_{namespace}_{name}", of three strings
CanonicalId(kind, namespace, name) ==
    kind \o S_us \o namespace \o S_us \o name

\* current_id of a resource in get_resource_data
ResourceId(resource) ==
    CanonicalId(Fmt(Get(resource, S_kind)),
                Fmt(Get(resource, S_namespace)),
                Fmt(Get(resource, S_name)))

create_uri(kind, namespace, name) ==
    LLA \o CanonicalId(kind, namespace, name)

\* self.lla[ref_field]
LlaTerm(term) == LLA \o term

\* str(uri).split('#')[1]
UriFragment(uri) == Split(uri, "#")[2]

----------------------------------------------------------------------------
(* Graph Builder.  A processor is the record of the fields set in          *)
(* NetworkDataProcessor.__init__.                                          *)

\* rdflib's RDF.type, any term outside the lla namespace
RDF_type == <<"a">>

NewProcessor == [g |-> {}, relationships |-> <<>>, resource_cache |-> <<>>]

\* isinstance(ref_data, dict) and all(k in ref_data for k in [...])
WellFormedRef(ref_data) == IsDict(ref_data) /\ HasIdentity(ref_data)

\* variant: the new edge is put in front of the list
add_reference_relationship_front(p, subject_uri, ref_field, ref_data) ==
    IF WellFormedRef(ref_data)
    THEN LET obj_uri == create_uri(Fmt(Get(ref_data, S_kind)),
                                   Fmt(Get(ref_data, S_namespace)),
                                   Fmt(Get(ref_data, S_name)))
             relationship == [from     |-> UriFragment(subject_uri),
                              to       |-> UriFragment(obj_uri),
                              label    |-> ref_field,
                              from_uri |-> subject_uri,
                              to_uri   |-> obj_uri]
         IN  [p EXCEPT !.g = @ \cup {<<subject_uri, LlaTerm(ref_field), obj_uri>>},
                       !.relationships = <<relationship>> \o @]
    ELSE p

add_reference_relationship(p, subject_uri, ref_field, ref_data) ==
    IF WellFormedRef(ref_data)
    THEN LET obj_uri == create_uri(Fmt(Get(ref_data, S_kind)),
                                   Fmt(Get(ref_data, S_namespace)),
                                   Fmt(Get(ref_data, S_name)))
             relationship == [from     |-> UriFragment(subject_uri),
                              to       |-> UriFragment(obj_uri),
                              label    |-> ref_field,
                              from_uri |-> subject_uri,
                              to_uri   |-> obj_uri]
         IN  [p EXCEPT !.g = @ \cup {<<subject_uri, LlaTerm(ref_field), obj_uri>>},
                       !.relationships = Append(@, relationship)]
    ELSE p

\* variant: the inner loop labels a nested reference with nested_key alone
RECURSIVE process_nested_unprefixed(_, _, _, _, _)
process_nested_unprefixed(p, resource_uri, key, value, j) ==
    IF j > Len(value.keys) THEN p
    ELSE LET nested_key == value.keys[j]
             p1 == IF EndsWith(nested_key, S_Ref)
                   THEN add_reference_relationship(
                            p, resource_uri, nested_key, value.vals[j])
                   ELSE p
         IN  process_nested_unprefixed(p1, resource_uri, key, value, j + 1)

\* variant: the inner loop descends into nested mappings
RECURSIVE process_nested_deep(_, _, _, _, _)
process_nested_deep(p, resource_uri, key, value, j) ==
    IF j > Len(value.keys) THEN p
    ELSE LET nested_key == value.keys[j]
             p1 == IF EndsWith(nested_key, S_Ref)
                   THEN add_reference_relationship(
                            p, resource_uri, key \o S_us \o nested_key, value.vals[j])
                   ELSE IF IsDict(value.vals[j])
                   THEN process_nested_deep(p, resource_uri, key \o S_us \o nested_key,
                                            value.vals[j], 1)
                   ELSE p
         IN  process_nested_deep(p1, resource_uri, key, value, j + 1)

\* the inner loop of process_spec: nested keys j.. of the dict `value`
RECURSIVE process_nested(_, _, _, _, _)
process_nested(p, resource_uri, key, value, j) ==
    IF j > Len(value.keys) THEN p
    ELSE LET nested_key == value.keys[j]
             p1 == IF EndsWith(nested_key, S_Ref)
                   THEN add_reference_relationship(
                            p, resource_uri, key \o S_us \o nested_key, value.vals[j])
                   ELSE p
         IN  process_nested(p1, resource_uri, key, value, j + 1)

\* variant: `if isinstance(value, dict)` in the place of `elif`
process_key_both(p, resource_uri, key, value) ==
    LET p1 == IF EndsWith(key, S_Ref)
              THEN add_reference_relationship(p, resource_uri, key, value)
              ELSE p
    IN  IF IsDict(value)
        THEN process_nested(p1, resource_uri, key, value, 1)
        ELSE p1

\* one iteration of the outer loop of process_spec
process_key(p, resource_uri, key, value) ==
    IF EndsWith(key, S_Ref)
    THEN add_reference_relationship(p, resource_uri, key, value)
    ELSE IF IsDict(value)
         THEN process_nested(p, resource_uri, key, value, 1)
         ELSE p

\* variant: the outer loop returns at the first malformed reference field
RECURSIVE process_items_stop(_, _, _, _)
process_items_stop(p, resource_uri, spec_data, i) ==
    IF i > Len(spec_data.keys) THEN p
    ELSE IF EndsWith(spec_data.keys[i], S_Ref) /\ ~WellFormedRef(spec_data.vals[i])
    THEN p
    ELSE process_items_stop(
             process_key(p, resource_uri, spec_data.keys[i], spec_data.vals[i]),
             resource_uri, spec_data, i + 1)

\* the outer loop of process_spec: keys i.. of spec_data
RECURSIVE process_items(_, _, _, _)
process_items(p, resource_uri, spec_data, i) ==
    IF i > Len(spec_data.keys) THEN p
    ELSE process_items(
             process_key(p, resource_uri, spec_data.keys[i], spec_data.vals[i]),
             resource_uri, spec_data, i + 1)

process_spec(p, resource_uri, spec_data) ==
    IF ~IsDict(spec_data) THEN p
    ELSE process_items(p, resource_uri, spec_data, 1)

\* the body of the loop `for resource in data` of generate_ontology_and_vectors
process_resource(p, resource) ==
    IF HasIdentity(resource)
    THEN LET resource_uri == create_uri(Fmt(Get(resource, S_kind)),
                                        Fmt(Get(resource, S_namespace)),
                                        Fmt(Get(resource, S_name)))
             p1 == [p EXCEPT !.g = @ \cup
                       {<<resource_uri, RDF_type, LlaTerm(Fmt(Get(resource, S_kind)))>>}]
         IN  IF In(S_spec, resource)
             THEN process_spec(p1, resource_uri, Get(resource, S_spec))
             ELSE p1
    ELSE p

----------------------------------------------------------------------------
(* The directory and the Resource Store *)

F_ontology   == <<"o","n","t","o","l","o","g","y",".","t","t","l">>
F_vector     == <<"v","e","c","t","o","r","_","i","n","g","e","s","t","i","o","n",
                  ".","j","s","o","n">>
F_html       == <<"r","e","l","a","t","i","o","n","s","h","i","p","s",
                  ".","h","t","m","l">>
S_dotjson    == <<".","j","s","o","n">>

File(name, data) == [name |-> name, data |-> data]

\* open(path, 'w') and write: an existing file keeps its place in the
\* listing, a new one is listed last
WriteFile(d, name, data) ==
    IF \E i \in 1..Len(d) : d[i].name = name
    THEN [i \in 1..Len(d) |-> IF d[i].name = name THEN File(name, data) ELSE d[i]]
    ELSE Append(d, File(name, data))

\* what `for resource in data` iterates over: the items of a list, the keys
\* of a dict, the characters of a string; json.load raises on a text that
\* is not JSON and the loop raises on a number
Iterate(data) ==
    CASE data.t = "list" -> data.items
      [] data.t = "dict" -> [i \in 1..Len(data.keys) |-> Str(data.keys[i])]
      [] data.t = "str"  -> [i \in 1..Len(data.s) |-> Str(<<data.s[i]>>)]
      [] OTHER           -> <<LoadError>>

\* the resources met by the two nested loops over os.listdir(input_dir) and
\* load_json_file(filename), in order, from file i on; the loops end where
\* loading raises
RECURSIVE ResourcesFrom(_, _)
ResourcesFrom(d, i) ==
    IF i > Len(d) THEN <<>>
    ELSE IF ~EndsWith(d[i].name, S_dotjson) THEN ResourcesFrom(d, i + 1)
    ELSE IF Iterate(d[i].data) = <<LoadError>> THEN <<LoadError>>
    ELSE Iterate(d[i].data) \o ResourcesFrom(d, i + 1)

Resources(d) == ResourcesFrom(d, 1)

CachePut(cache, id, resource) ==
    [x \in (DOMAIN cache) \cup {id} |-> IF x = id THEN resource ELSE cache[x]]

\* variant: the scan returns the first resource it caches, whatever its id
RECURSIVE ScanFrom_any(_, _, _, _)
ScanFrom_any(cache, rs, i, resource_id) ==
    IF i > Len(rs)
    THEN [cache |-> cache, ret |-> None, scanned |-> TRUE, raised |-> FALSE]
    ELSE IF RecordRaises(rs[i])
    THEN [cache |-> cache, ret |-> None, scanned |-> TRUE, raised |-> TRUE]
    ELSE IF HasIdentity(rs[i])
         THEN [cache |-> CachePut(cache, ResourceId(rs[i]), rs[i]),
               ret |-> rs[i], scanned |-> TRUE, raised |-> FALSE]
         ELSE ScanFrom_any(cache, rs, i + 1, resource_id)

\* the scan of get_resource_data from resource i on; returns on the first match
RECURSIVE ScanFrom(_, _, _, _)
ScanFrom(cache, rs, i, resource_id) ==
    IF i > Len(rs)
    THEN [cache |-> cache, ret |-> None, scanned |-> TRUE, raised |-> FALSE]
    ELSE IF RecordRaises(rs[i])
    THEN [cache |-> cache, ret |-> None, scanned |-> TRUE, raised |-> TRUE]
    ELSE IF HasIdentity(rs[i])
         THEN LET current_id == ResourceId(rs[i])
                  c1 == CachePut(cache, current_id, rs[i])
              IN  IF current_id = resource_id
                  THEN [cache |-> c1, ret |-> rs[i], scanned |-> TRUE,
                        raised |-> FALSE]
                  ELSE ScanFrom(c1, rs, i + 1, resource_id)
         ELSE ScanFrom(cache, rs, i + 1, resource_id)

get_resource_data(cache, d, resource_id) ==
    IF resource_id \in DOMAIN cache
    THEN [cache |-> cache, ret |-> cache[resource_id], scanned |-> FALSE,
          raised |-> FALSE]
    ELSE ScanFrom(cache, Resources(d), 1, resource_id)

----------------------------------------------------------------------------
(* Document Synthesizer.  A text is a sequence of lines; a line is the     *)
(* template the code formats, with the values it formats into it.  The     *)
(* rendering of nested values (format_dict_value) is kept as the value.    *)

\* resource_data['metadata'].items() / resource_data['spec'].items() need a dict
ContextRaises(resource_data) ==
    \/ In(S_metadata, resource_data) /\ ~IsDict(Get(resource_data, S_metadata))
    \/ In(S_spec, resource_data) /\ ~IsDict(Get(resource_data, S_spec))

\* f"{key}:{self.format_dict_value(value)}" for every item of the dict d
ItemLines(d) ==
    [i \in 1..Len(d.keys) |-> [line |-> "item", key |-> d.keys[i], value |-> d.vals[i]]]

Touches(rel, resource_id) == rel.from = resource_id \/ rel.to = resource_id

\* variant: only the edges that leave the resource are listed
RECURSIVE RelationLines_outbound(_, _, _)
RelationLines_outbound(rels, resource_id, i) ==
    IF i > Len(rels) THEN <<>>
    ELSE (IF rels[i].from = resource_id
          THEN <<[line |-> "has", label |-> rels[i].label, other |-> rels[i].to]>>
          ELSE <<>>)
         \o RelationLines_outbound(rels, resource_id, i + 1)

\* the lines of "Resource Relationships:", one per related edge from index i on
RECURSIVE RelationLines(_, _, _)
RelationLines(rels, resource_id, i) ==
    IF i > Len(rels) THEN <<>>
    ELSE (IF ~Touches(rels[i], resource_id) THEN <<>>
          ELSE IF rels[i].from = resource_id
               THEN <<[line |-> "has", label |-> rels[i].label, other |-> rels[i].to]>>
               ELSE <<[line |-> "is", label |-> rels[i].label, other |-> rels[i].from]>>)
         \o RelationLines(rels, resource_id, i + 1)

\* returns the text, the cache as the lookup left it, and whether it raised
generate_resource_context_enhanced(p, d, resource_id) ==
    LET context(cache, resource_data, related) ==
            IF resource_data = LoadError
            THEN [cache |-> cache, raised |-> TRUE, content |-> <<>>]
            ELSE IF resource_data = None
            THEN [cache |-> cache, raised |-> FALSE,
                  content |-> <<[line |-> "not_found", id |-> resource_id]>>]
            ELSE IF ContextRaises(resource_data)
            THEN [cache |-> cache, raised |-> TRUE, content |-> <<>>]
            ELSE [cache |-> cache, raised |-> FALSE,
                  content |->
                      <<[line |-> "description"],
                        [line |-> "type", value |-> Get(resource_data, S_kind)],
                        [line |-> "name", value |-> Get(resource_data, S_name)],
                        [line |-> "namespace", value |-> Get(resource_data, S_namespace)]>>
                      \o (IF In(S_metadata, resource_data)
                          THEN <<[line |-> "metadata"]>>
                               \o ItemLines(Get(resource_data, S_metadata))
                          ELSE <<>>)
                      \o (IF In(S_spec, resource_data)
                          THEN <<[line |-> "specification"]>>
                               \o ItemLines(Get(resource_data, S_spec))
                          ELSE <<>>)
                      \o (IF related # <<>>
                          THEN <<[line |-> "relationships"]>> \o related
                          ELSE <<>>)]
        found(got) == context(got.cache, IF got.raised THEN LoadError ELSE got.ret,
                              RelationLines(p.relationships, resource_id, 1))
    IN  found(get_resource_data(p.resource_cache, d, resource_id))

\* parts[1] of resource_id.split('_') must exist
DescriptionRaises(resource_id) == Len(Split(resource_id, "_")) < 2

create_resource_description(resource_id) ==
    LET parts == Split(resource_id, "_")
    IN  [resource_id |-> resource_id,
         kind        |-> parts[1],
         namespace   |-> parts[2],
         name        |-> Join(SubSeq(parts, 3, Len(parts)), "_")]

relationship_doc(rel, source, target, now) ==
    [id       |-> S_rel \o rel.from \o S_us \o rel.to,
     type     |-> "relationship",
     content  |-> <<[line |-> "relationship",
                     source_kind |-> source.kind, source_name |-> source.name,
                     source_namespace |-> source.namespace,
                     label |-> rel.label,
                     target_kind |-> target.kind, target_name |-> target.name,
                     target_namespace |-> target.namespace]>>,
     metadata |-> [relationship_type |-> rel.label,
                   source_resource   |-> source,
                   target_resource   |-> target,
                   source_uri        |-> rel.from_uri,
                   target_uri        |-> rel.to_uri,
                   timestamp         |-> now]]

resource_doc(resource_id, desc, uri, content, now) ==
    [id       |-> resource_id,
     type     |-> "resource",
     content  |-> content,
     metadata |-> [resource_type |-> desc.kind,
                   namespace     |-> desc.namespace,
                   name          |-> desc.name,
                   uri           |-> uri,
                   timestamp     |-> now]]

\* variant: the seen-set is never filled
emit_resource_unseen(acc, d, resource_id, desc, uri, now) ==
    IF acc.raised \/ resource_id \in acc.processed THEN acc
    ELSE LET emit(ctx) ==
                 IF ctx.raised
                 THEN [acc EXCEPT !.p.resource_cache = ctx.cache, !.raised = TRUE]
                 ELSE [acc EXCEPT !.p.resource_cache = ctx.cache,
                                  !.docs = Append(@, resource_doc(resource_id, desc, uri,
                                                                  ctx.content, now))]
         IN  emit(generate_resource_context_enhanced(acc.p, d, resource_id))

\* "Process source resource" / "Process target resource": acc is the record
\* of vector_documents, processed_resources, the processor and raised
emit_resource(acc, d, resource_id, desc, uri, now) ==
    IF acc.raised \/ resource_id \in acc.processed THEN acc
    ELSE LET emit(ctx) ==
                 IF ctx.raised
                 THEN [acc EXCEPT !.p.resource_cache = ctx.cache, !.raised = TRUE]
                 ELSE [acc EXCEPT !.p.resource_cache = ctx.cache,
                                  !.docs = Append(@, resource_doc(resource_id, desc, uri,
                                                                  ctx.content, now)),
                                  !.processed = @ \cup {resource_id}]
         IN  emit(generate_resource_context_enhanced(acc.p, d, resource_id))

\* the loop `for rel in self.relationships` from edge i on
RECURSIVE synthesize_from(_, _, _, _)
synthesize_from(acc, d, i, now) ==
    IF acc.raised \/ i > Len(acc.p.relationships) THEN acc
    ELSE LET rel == acc.p.relationships[i]
         IN  IF DescriptionRaises(rel.from) \/ DescriptionRaises(rel.to)
             THEN [acc EXCEPT !.raised = TRUE]
             ELSE LET source == create_resource_description(rel.from)
                      target == create_resource_description(rel.to)
                      a1 == [acc EXCEPT !.docs =
                                Append(@, relationship_doc(rel, source, target, now))]
                      a2 == emit_resource(a1, d, rel.from, source, rel.from_uri, now)
                      a3 == emit_resource(a2, d, rel.to, target, rel.to_uri, now)
                  IN  synthesize_from(a3, d, i + 1, now)

generate_vector_ingestion_data(p, d, now) ==
    synthesize_from([docs |-> <<>>, processed |-> {}, p |-> p, raised |-> FALSE],
                    d, 1, now)

\* variant: the header names both document types whatever was written
DocumentTypes_both(docs) == {"relationship", "resource"}

\* set(doc['type'] for doc in vector_data)
DocumentTypes(docs) == {docs[i].type : i \in 1..Len(docs)}

\* returns the processor, the directory and whether it raised
save_vector_ingestion_data(p, d, now) ==
    LET save(out) ==
            IF out.raised
            THEN [p |-> out.p, dir |-> d, raised |-> TRUE]
            ELSE [p |-> out.p, raised |-> FALSE,
                  dir |-> WriteFile(d, F_vector,
                             Dict(<<S_metadata, S_documents>>,
                                  <<[generated_at    |-> now,
                                     total_documents |-> Len(out.docs),
                                     document_types  |-> DocumentTypes(out.docs)],
                                    out.docs>>))]
    IN  save(generate_vector_ingestion_data(p, d, now))

\* the loops over json_files and their resources, from resource i on
RECURSIVE build_from(_, _, _)
build_from(p, rs, i) ==
    IF i > Len(rs) THEN [p |-> p, raised |-> FALSE]
    ELSE IF RecordRaises(rs[i]) THEN [p |-> p, raised |-> TRUE]
    ELSE build_from(process_resource(p, rs[i]), rs, i + 1)

generate_ontology_and_vectors(p, d, now) ==
    LET returned(sv) == [p |-> sv.p, dir |-> sv.dir, raised |-> sv.raised,
                         relationships |-> sv.p.relationships]
        serialize(built) ==
            IF built.raised
            THEN [p |-> built.p, dir |-> d, raised |-> TRUE,
                  relationships |-> built.p.relationships]
            ELSE returned(save_vector_ingestion_data(
                     built.p,
                     WriteFile(d, F_ontology, [t |-> "turtle", triples |-> built.p.g]),
                     now))
    IN  serialize(build_from(p, Resources(d), 1))

----------------------------------------------------------------------------
(* Visualization Renderer and the service *)

\* nx.DiGraph() after G.add_edge(rel['from'], rel['to'], label=rel['label'])
\* for every edge: one edge per ordered pair, carrying the label added last
DiGraph(rels) ==
    LET pairs == {<<rels[i].from, rels[i].to>> : i \in 1..Len(rels)}
        last(e) == CHOOSE i \in 1..Len(rels) :
                       /\ <<rels[i].from, rels[i].to>> = e
                       /\ \A k \in (i + 1)..Len(rels) : <<rels[k].from, rels[k].to>> # e
    IN  [nodes |-> {e[1] : e \in pairs} \cup {e[2] : e \in pairs},
         edges |-> [e \in pairs |-> rels[last(e)].label]]

\* returns the directory with relationships.html written
generate_html_visualization(p, d) ==
    WriteFile(d, F_html, [t |-> "html", graph |-> DiGraph(p.relationships),
                          table |-> p.relationships])

\* NetworkModelingService.generate_and_process_data; the mock generator
\* writes the directory "output", which the processor never reads
generate_and_process_data(p, d, now) ==
    LET respond(run) ==
            IF run.raised
            THEN [p |-> run.p, dir |-> run.dir,
                  response |-> [op |-> "generate", status |-> "error"]]
            ELSE [p |-> run.p, dir |-> generate_html_visualization(run.p, run.dir),
                  response |-> [op |-> "generate", status |-> "success",
                                relationship_count |-> Len(run.relationships)]]
    IN  respond(generate_ontology_and_vectors(p, d, now))

\* Paths are sequences of components from the root.  The path a relative
\* path names in the working directory w: ".." leaves a directory, and
\* leaves the root where it is
RECURSIVE ResolvePath(_, _)
ResolvePath(w, path) ==
    IF path = <<>> THEN w
    ELSE IF Head(path) = ".."
         THEN ResolvePath(IF w = <<>> THEN w ELSE SubSeq(w, 1, Len(w) - 1), Tail(path))
         ELSE ResolvePath(Append(w, Head(path)), Tail(path))

\* self.output_dir = "data/output" of the processor
ProcessorOutputDir(w) == ResolvePath(w, <<"data", "output">>)

\* self.output_dir = Path("../data/output") of the service
ServiceOutputDir(w) == ResolvePath(w, <<"..", "data", "output">>)

\* NetworkModelingService.get_visualization in the working directory w, d
\* being the processor's output directory: the service reads
\* relationships.html in its own output directory, which no part of the
\* program writes into unless it is the processor's
get_visualization(w, d) ==
    IF /\ ServiceOutputDir(w) = ProcessorOutputDir(w)
       /\ \E i \in 1..Len(d) : d[i].name = F_html
    THEN [op |-> "visualization", status |-> "ok",
          report |-> (CHOOSE f \in {d[i] : i \in 1..Len(d)} : f.name = F_html).data]
    ELSE [op |-> "visualization", status |-> "not_found"]

\* where the service is started: the directory of api_wrapper.py
SourceDirectory == <<"src">>

----------------------------------------------------------------------------
(* Inputs *)

MaxRuns    == 2     \* generate requests per behaviour
MaxRecords == 2     \* resource records over all input units
MaxKeys    == 2     \* keys of a spec drawn for the extractor

K_xRef  == <<"x","R","e","f">>
K_yRef  == <<"y","R","e","f">>
K_cfg   == <<"c","f","g">>
K_xRefs == <<"x","R","e","f","s">>
K_label == <<"l">>

Ref(kind, namespace, name) ==
    Dict(<<S_kind, S_namespace, S_name>>, <<Str(kind), Str(namespace), Str(name)>>)

\* identities: T3 and T4 differ only in where the "_" falls, T5 and T7 have
\* a "#" in their names and T6 one in its kind
T1 == <<<<"a">>, <<"b">>, <<"c">>>>
T2 == <<<<"a">>, <<"b">>, <<"d">>>>
T3 == <<<<"a">>, <<"b">>, <<"c","_","d">>>>
T4 == <<<<"a">>, <<"b","_","c">>, <<"d">>>>
T5 == <<<<"a">>, <<"b">>, <<"c","#","d">>>>
T6 == <<<<"a","#","b">>, <<"c">>, <<"d">>>>
T7 == <<<<"a">>, <<"b">>, <<"d","#","e">>>>
T9 == <<<<"a">>, <<"b">>, <<"z">>>>

RefTo(t) == Ref(t[1], t[2], t[3])

\* a resource record with the identity t and the spec `spec`
Resource(t, spec) ==
    Dict(<<S_kind, S_namespace, S_name, S_spec>>,
         <<Str(t[1]), Str(t[2]), Str(t[3]), spec>>)

Records ==
    { Resource(T1, Dict(<<K_xRef>>, <<RefTo(T2)>>)),
      Dict(<<S_kind, S_namespace, S_name, S_metadata, S_spec>>,
           <<Str(T2[1]), Str(T2[2]), Str(T2[3]),
             Dict(<<K_label>>, <<Str(<<"v">>)>>),
             Dict(<<K_xRef>>, <<RefTo(T1)>>)>>),
      Resource(T1, Dict(<<K_xRef, K_yRef>>, <<RefTo(T2), RefTo(T2)>>)),
      Resource(T4, Dict(<<K_xRef>>, <<RefTo(T3)>>)),
      Dict(<<S_kind, S_namespace, S_name>>, <<Str(T9[1]), Str(T9[2]), Str(T9[3])>>),
      Dict(<<S_kind, S_namespace, S_spec>>,
           <<Str(T1[1]), Str(T1[2]), Dict(<<K_xRef>>, <<RefTo(T1)>>)>>),
      Resource(T5, Dict(<<K_xRef>>, <<RefTo(T7)>>)),
      Resource(T6, Dict(<<K_xRef>>, <<RefTo(T1)>>)),
      Resource(T2, Dict(<<K_xRef>>, <<RefTo(T2)>>)) }

SeqsUpTo(S, n) == UNION {[1..k -> S] : k \in 0..n}

FileName(i) == <<<<"a">>, <<"b">>>>[i] \o S_dotjson

\* the records rs in one input unit, or in two with the first c records in
\* the first
OneUnit(rs) == <<File(FileName(1), List(rs))>>
TwoUnits(rs, c) ==
    <<File(FileName(1), List(SubSeq(rs, 1, c))),
      File(FileName(2), List(SubSeq(rs, c + 1, Len(rs))))>>

Directories ==
    UNION { {OneUnit(rs)} \cup {TwoUnits(rs, c) : c \in 0..Len(rs)} :
              rs \in SeqsUpTo(Records, MaxRecords) }

\* the identities looked up directly
LookupIds == { CanonicalId(T1[1], T1[2], T1[3]),
               CanonicalId(T2[1], T2[2], T2[3]) }

----------------------------------------------------------------------------
(* The service process *)

Init ==
    /\ dir \in Directories
    /\ relationships = NewProcessor.relationships
    /\ resource_cache = NewProcessor.resource_cache
    /\ g = NewProcessor.g
    /\ clock = 0
    /\ ret = [op |-> "init"]
    /\ cwd = SourceDirectory

Processor == [g |-> g, relationships |-> relationships,
              resource_cache |-> resource_cache]

\* POST /generate
Generate ==
    /\ clock < MaxRuns
    /\ \E out \in {generate_and_process_data(Processor, dir, clock + 1)} :
           /\ dir' = out.dir
           /\ relationships' = out.p.relationships
           /\ resource_cache' = out.p.resource_cache
           /\ g' = out.p.g
           /\ ret' = out.response
    /\ clock' = clock + 1
    /\ cwd' = cwd

\* a lookup in the Resource Store
Lookup ==
    \E id \in LookupIds :
        \E got \in {get_resource_data(resource_cache, dir, id)} :
            /\ resource_cache' = got.cache
            /\ ret' = [op |-> "lookup", id |-> id, result |-> got.ret,
                       scanned |-> got.scanned, raised |-> got.raised]
            /\ UNCHANGED <<dir, relationships, g, clock, cwd>>

Next == Generate \/ Lookup

Spec == Init /\ [][Next]_vars

----------------------------------------------------------------------------
(* One resource through the Reference Extractor: the directory holds one   *)
(* input unit with one record, whose spec is drawn from ExtractSpecs, and  *)
(* the first generate request processes it.                                *)

V_ref  == RefTo(T2)
V_bad  == Dict(<<S_kind, S_namespace>>, <<Str(T2[1]), Str(T2[2])>>)
V_str  == Str(<<"v">>)
\* a reference-shaped key inside a sequence
V_list == List(<<Dict(<<K_xRef>>, <<RefTo(T9)>>)>>)
\* one level down: a reference missing `name`, then a well-formed one
V_nest == Dict(<<K_yRef, K_xRef>>, <<V_bad, RefTo(T3)>>)
\* one level down: two well-formed references around a plain key
V_nest2 == Dict(<<K_yRef, K_cfg, K_xRef>>, <<RefTo(T2), V_str, RefTo(T4)>>)
\* a reference payload that itself holds a reference field
V_refnest == Dict(<<S_kind, S_namespace, S_name, K_yRef>>,
                  <<Str(T2[1]), Str(T2[2]), Str(T2[3]), RefTo(T3)>>)
\* two levels down, and one level down inside a sequence
V_deep == Dict(<<K_cfg, K_xRef>>,
               <<Dict(<<K_xRef>>, <<RefTo(T9)>>), List(<<RefTo(T9)>>)>>)

SpecKeys   == {K_xRef, K_yRef, K_cfg, K_xRefs}
SpecValues == {V_ref, V_bad, V_str, V_list, V_nest, V_nest2, V_refnest, V_deep}

\* dicts of at most MaxKeys distinct keys, in every insertion order
ExtractSpecs ==
    { Dict([i \in 1..Len(kv) |-> kv[i][1]], [i \in 1..Len(kv) |-> kv[i][2]]) :
        kv \in { x \in SeqsUpTo(SpecKeys \X SpecValues, MaxKeys) :
                   \A i, j \in 1..Len(x) : i # j => x[i][1] # x[j][1] } }

\* the `access` record of the mock generator, reduced to its references
K_siteRef      == <<"s","i","t","e","R","e","f">>
K_edgeRef      == <<"e","d","g","e","R","e","f">>
K_vnfRef       == <<"v","n","f","R","e","f">>
K_ipamBlockRef == <<"i","p","a","m","B","l","o","c","k","R","e","f">>
K_vlanRef      == <<"v","l","a","n","R","e","f">>

AccessSpec ==
    Dict(<<K_siteRef, K_edgeRef, K_vnfRef, K_ipamBlockRef, K_vlanRef>>,
         <<RefTo(T2), RefTo(T3), RefTo(T4), RefTo(T2), RefTo(T1)>>)

ExtractRecords ==
    {Resource(T1, sp) : sp \in ExtractSpecs \cup {AccessSpec, V_str}}

InitExtract ==
    /\ dir \in {OneUnit(<<r>>) : r \in ExtractRecords}
    /\ relationships = NewProcessor.relationships
    /\ resource_cache = NewProcessor.resource_cache
    /\ g = NewProcessor.g
    /\ clock = 0
    /\ ret = [op |-> "init"]
    /\ cwd = SourceDirectory

\* the first generate request
FirstGenerate == clock = 0 /\ Generate

SpecExtract == InitExtract /\ [][FirstGenerate]_vars

----------------------------------------------------------------------------
(* The reference fields of a spec, read off the payload *)

\* the record of the one input unit of SpecExtract, its spec and its id
TheResource == dir[1].data.items[1]
TheSpec     == Get(TheResource, S_spec)
TheId       == ResourceId(TheResource)

\* the last request was a generate that completed
Completed == ret.op = "generate" /\ ret.status = "success"

\* positions i of keys directly under sp that end with Ref
DirectFields(sp) ==
    IF IsDict(sp) THEN {i \in 1..Len(sp.keys) : EndsWith(sp.keys[i], S_Ref)} ELSE {}

\* positions <<i, j>> of keys ending with Ref one level inside a
\* mapping-valued field i of sp
NestedFields(sp) ==
    IF IsDict(sp)
    THEN UNION { {<<i, j>> : j \in {k \in 1..Len(sp.vals[i].keys) :
                                       EndsWith(sp.vals[i].keys[k], S_Ref)}} :
                 i \in {k \in 1..Len(sp.keys) : IsDict(sp.vals[k])} }
    ELSE {}

\* those inside a field whose own key does not end with Ref
PlainNestedFields(sp) == {f \in NestedFields(sp) : ~EndsWith(sp.keys[f[1]], S_Ref)}

DirectValue(sp, i) == sp.vals[i]
NestedValue(sp, f) == sp.vals[f[1]].vals[f[2]]
NestedLabel(sp, f) == sp.keys[f[1]] \o S_us \o sp.vals[f[1]].keys[f[2]]

WellFormedDirect(sp) == {i \in DirectFields(sp) : WellFormedRef(DirectValue(sp, i))}
WellFormedNested(sp) == {f \in NestedFields(sp) : WellFormedRef(NestedValue(sp, f))}
WellFormedPlainNested(sp) == WellFormedNested(sp) \cap PlainNestedFields(sp)

\* <<label, to>> of the edges
EdgePairs == {<<relationships[k].label, relationships[k].to>> :
                 k \in 1..Len(relationships)}
HasEdge(label, to) == <<label, to>> \in EdgePairs
EdgeLabels == {relationships[k].label : k \in 1..Len(relationships)}
FactLabels == {f[2] : f \in g}

DirectPairs(sp, fields) == {<<sp.keys[i], ResourceId(DirectValue(sp, i))>> : i \in fields}
NestedPairs(sp, fields) ==
    {<<NestedLabel(sp, f), ResourceId(NestedValue(sp, f))>> : f \in fields}

\* ids of the well-formed reference payloads under keys ending with Ref
\* anywhere in v (depth counts dicts entered below spec), as <<id, shallow>>:
\* shallow when the key is at depth 1 or 2 and not inside a sequence
RECURSIVE Payloads(_, _, _)
Payloads(v, depth, inlist) ==
    CASE v.t = "dict" ->
           UNION { (IF EndsWith(v.keys[i], S_Ref) /\ WellFormedRef(v.vals[i])
                    THEN {<<ResourceId(v.vals[i]), depth <= 1 /\ ~inlist>>}
                    ELSE {})
                   \cup Payloads(v.vals[i], depth + 1, inlist) :
                   i \in 1..Len(v.keys) }
      [] v.t = "list" ->
           UNION { Payloads(v.items[i], depth, TRUE) : i \in 1..Len(v.items) }
      [] OTHER -> {}

\* targets referenced only from depth three or more, or from inside sequences
DeepOnlyTargets(sp) ==
    {x[1] : x \in Payloads(sp, 0, FALSE)}
        \ {x[1] : x \in {y \in Payloads(sp, 0, FALSE) : y[2]}}

----------------------------------------------------------------------------
(* Reference Extractor: claims *)

C3_MalformedSkipped ==
    ret.op = "generate" =>
        /\ ret.status = "success"
        /\ \A i \in DirectFields(TheSpec) \ WellFormedDirect(TheSpec) :
               /\ TheSpec.keys[i] \notin EdgeLabels
               /\ LlaTerm(TheSpec.keys[i]) \notin FactLabels
        /\ \A f \in NestedFields(TheSpec) \ WellFormedNested(TheSpec) :
               /\ NestedLabel(TheSpec, f) \notin EdgeLabels
               /\ LlaTerm(NestedLabel(TheSpec, f)) \notin FactLabels
        /\ \A i \in WellFormedDirect(TheSpec) :
               /\ HasEdge(TheSpec.keys[i], ResourceId(DirectValue(TheSpec, i)))
               /\ LlaTerm(TheSpec.keys[i]) \in FactLabels
        /\ \A f \in WellFormedPlainNested(TheSpec) :
               /\ HasEdge(NestedLabel(TheSpec, f), ResourceId(NestedValue(TheSpec, f)))
               /\ LlaTerm(NestedLabel(TheSpec, f)) \in FactLabels

\* a malformed field directly under spec, then one level down a malformed
\* field followed by a well-formed one, which has its edge
C3_Witness ==
    /\ Completed
    /\ \E i \in DirectFields(TheSpec) \ WellFormedDirect(TheSpec) :
           \E f \in PlainNestedFields(TheSpec) \ WellFormedNested(TheSpec) :
               \E h \in WellFormedPlainNested(TheSpec) :
                   /\ i < f[1] /\ f[1] = h[1] /\ f[2] < h[2]
                   /\ HasEdge(NestedLabel(TheSpec, h),
                              ResourceId(NestedValue(TheSpec, h)))

\* C4: every edge comes from a key directly under spec or directly under a
\* mapping-valued field of spec; a target referenced only three or more
\* levels down, or only inside a sequence, is the `to` of no edge.
C4_DepthLimit ==
    Completed =>
        /\ EdgePairs \subseteq
               DirectPairs(TheSpec, WellFormedDirect(TheSpec))
                   \cup NestedPairs(TheSpec, WellFormedNested(TheSpec))
        /\ \A k \in 1..Len(relationships) :
               relationships[k].to \notin DeepOnlyTargets(TheSpec)

\* a spec with a reference two levels down and one inside a sequence, next
\* to a reference that has its edge
C4_Witness ==
    /\ Completed
    /\ IsDict(TheSpec)
    /\ DeepOnlyTargets(TheSpec) # {}
    /\ \E i \in 1..Len(TheSpec.keys) :
           TheSpec.vals[i] = V_deep /\ ~EndsWith(TheSpec.keys[i], S_Ref)
    /\ Len(relationships) >= 1

----------------------------------------------------------------------------
(* The run as a whole: what the claims read *)

\* the resources of the input units that carry an identity
LoadedRecords(d) ==
    {r \in {Resources(d)[i] : i \in 1..Len(Resources(d))} :
        IsDict(r) /\ HasIdentity(r)}

LoadedIds(d) == {ResourceId(r) : r \in LoadedRecords(d)}

\* the document export, once written
HasVector(d) == \E i \in 1..Len(d) : d[i].name = F_vector
VectorDocs(d) ==
    Get((CHOOSE f \in {d[i] : i \in 1..Len(d)} : f.name = F_vector).data, S_documents)

DocsOfType(docs, type) == {i \in 1..Len(docs) : docs[i].type = type}

\* the identities that occur as `from` or `to` of some edge
EdgeIds(rels) ==
    {rels[k].from : k \in 1..Len(rels)} \cup {rels[k].to : k \in 1..Len(rels)}

\* a document with its timestamp left out
Untimed(doc) == [id |-> doc.id, type |-> doc.type, content |-> doc.content]
DocSet(d) == {Untimed(VectorDocs(d)[i]) : i \in 1..Len(VectorDocs(d))}

\* the edges a new processor derives from the input units of d
FreshEdges(d) == build_from(NewProcessor, Resources(d), 1).p.relationships

\* the reference payloads the extractor reads in the spec of a loaded record
ExtractedRefs(r) ==
    IF In(S_spec, r)
    THEN LET sp == Get(r, S_spec)
         IN  {DirectValue(sp, i) : i \in WellFormedDirect(sp)}
                 \cup {NestedValue(sp, f) : f \in WellFormedPlainNested(sp)}
    ELSE {}

Triple(v) == <<Fmt(Get(v, S_kind)), Fmt(Get(v, S_namespace)), Fmt(Get(v, S_name))>>

\* the (kind, namespace, name) triples the run derives identities from
Identities(d) ==
    {Triple(r) : r \in LoadedRecords(d)}
        \cup UNION { {Triple(v) : v \in ExtractedRefs(r)} : r \in LoadedRecords(d) }

----------------------------------------------------------------------------
(* Document Synthesizer, Resource Store and service: claims *)

\* C5: the document export holds exactly one relationship document per edge
\* and exactly one resource document per distinct identity that is `from` or
\* `to` of some edge, so |edges| + |distinct identities in edges| documents;
\* a loaded resource that occurs in no edge has no document.
C5_Documents ==
    Completed =>
        LET docs == VectorDocs(dir)
            ids  == EdgeIds(relationships)
        IN  /\ Cardinality(DocsOfType(docs, "relationship")) = Len(relationships)
            /\ \A id \in ids :
                   Cardinality({i \in DocsOfType(docs, "resource") : docs[i].id = id}) = 1
            /\ \A i \in DocsOfType(docs, "resource") : docs[i].id \in ids
            /\ Len(docs) = Len(relationships) + Cardinality(ids)
            /\ DocsOfType(docs, "relationship") \cup DocsOfType(docs, "resource")
                   = 1..Len(docs)

\* the first run, with an identity that is the `to` of two edges and a
\* loaded resource without references that no edge names
C5_Witness ==
    /\ Completed
    /\ clock = 1
    /\ \E id \in EdgeIds(relationships) :
           Cardinality({k \in 1..Len(relationships) : relationships[k].to = id}) >= 2
    /\ \E r \in LoadedRecords(dir) :
           ~In(S_spec, r) /\ ResourceId(r) \notin EdgeIds(relationships)
    /\ Len(VectorDocs(dir)) = 4

\* C6 as stated: a well-formed reference whose target matches no loaded
\* resource still gets an edge whose `to` is the canonical id of the
\* referenced triple, and the resource document of that target says that
\* its information was not found.
C6_Stated ==
    Completed =>
        \A r \in LoadedRecords(dir) : \A v \in ExtractedRefs(r) :
            ResourceId(v) \notin LoadedIds(dir) =>
                /\ \E k \in 1..Len(relationships) :
                       relationships[k].to = ResourceId(v)
                /\ \E i \in DocsOfType(VectorDocs(dir), "resource") :
                       /\ VectorDocs(dir)[i].id = ResourceId(v)
                       /\ VectorDocs(dir)[i].content =
                              <<[line |-> "not_found", id |-> ResourceId(v)]>>

\* C7 as stated: a run on the same input units as the run before it yields
\* the same edge sequence and the same set of documents, timestamps aside.
C7_Stated ==
    [][ ( /\ clock' = clock + 1
          /\ HasVector(dir)
          /\ ret'.status = "success" )
        => ( /\ relationships' = relationships
             /\ DocSet(dir') = DocSet(dir) ) ]_vars

\* C8 as stated: each generate reports, and holds, only the edges derived
\* from the input of that invocation.
C8_Stated ==
    Completed =>
        /\ ret.relationship_count = Len(FreshEdges(dir))
        /\ relationships = FreshEdges(dir)

\* C9 as stated: two (kind, namespace, name) triples that differ in any
\* component never get the same canonical id, nor the same URI.
C9_Stated ==
    \A t1, t2 \in Identities(dir) :
        t1 # t2 =>
            /\ CanonicalId(t1[1], t1[2], t1[3]) # CanonicalId(t2[1], t2[2], t2[3])
            /\ create_uri(t1[1], t1[2], t1[3]) # create_uri(t2[1], t2[2], t2[3])

\* C10: a lookup returns a record exactly when some input unit holds a
\* record with kind, namespace and name whose canonical id is the id asked
\* for, and returns such a record; the cache holds only records that have
\* the three fields, each under its canonical id; the lookups of a run,
\* seen in the resource documents, follow the same rule.
C10_Lookup ==
    /\ ret.op = "lookup" =>
           /\ ret.result # None <=> ret.id \in LoadedIds(dir)
           /\ ret.result # None =>
                  /\ ret.result \in LoadedRecords(dir)
                  /\ ResourceId(ret.result) = ret.id
    /\ \A id \in DOMAIN resource_cache :
           /\ resource_cache[id] \in LoadedRecords(dir)
           /\ ResourceId(resource_cache[id]) = id
    /\ Completed =>
           \A i \in DocsOfType(VectorDocs(dir), "resource") :
               LET doc == VectorDocs(dir)[i]
               IN  (doc.content = <<[line |-> "not_found", id |-> doc.id]>>)
                       <=> doc.id \notin LoadedIds(dir)

\* a lookup that passed a record without `name` and found its record
C10_Witness ==
    /\ ret.op = "lookup"
    /\ ret.result # None
    /\ \E i \in 1..Len(Resources(dir)) :
           /\ ~HasIdentity(Resources(dir)[i])
           /\ \E k \in (i + 1)..Len(Resources(dir)) : Resources(dir)[k] = ret.result
    /\ DOMAIN resource_cache # {}

----------------------------------------------------------------------------
(* Input units and records that are not what the loader expects: the       *)
(* directory holds one or two units drawn from Units, and the service      *)
(* serves generate requests and lookups on it.                             *)

\* a well-formed unit: one record that references T2
U_good == List(<<Resource(T1, Dict(<<K_xRef>>, <<RefTo(T2)>>))>>)
\* a text that is not JSON
U_unparseable == Unparseable
\* a record at top level, outside any sequence
U_mapping == Resource(T9, Dict(<<K_xRef>>, <<RefTo(T1)>>))
\* sequences with an element that is no mapping: a number, a string
U_number == List(<<Num>>)
U_string == List(<<Str(<<"v">>)>>)
\* the record of T2 with a spec, or a metadata, that is a string
U_badspec == List(<<Resource(T2, V_str)>>)
U_badmeta ==
    List(<<Dict(<<S_kind, S_namespace, S_name, S_metadata>>,
                <<Str(T2[1]), Str(T2[2]), Str(T2[3]), V_str>>)>>)
\* a record without `name`, followed by the record of T2
U_noname ==
    List(<<Dict(<<S_kind, S_namespace, S_spec>>,
                <<Str(T1[1]), Str(T1[2]), Dict(<<K_xRef>>, <<RefTo(T1)>>)>>),
           Resource(T2, Dict(<<K_yRef>>, <<RefTo(T1)>>))>>)

Units == {U_good, U_unparseable, U_mapping, U_number, U_string,
          U_badspec, U_badmeta, U_noname}

MalformedDirectories ==
    {<<File(FileName(1), u)>> : u \in Units}
        \cup {<<File(FileName(1), uv[1]), File(FileName(2), uv[2])>> :
                 uv \in {x \in Units \X Units : x[1] # x[2]}}

InitMalformed ==
    /\ dir \in MalformedDirectories
    /\ relationships = NewProcessor.relationships
    /\ resource_cache = NewProcessor.resource_cache
    /\ g = NewProcessor.g
    /\ clock = 0
    /\ ret = [op |-> "init"]
    /\ cwd = SourceDirectory

SpecMalformed == InitMalformed /\ [][Next]_vars

\* the input units of d: its *.json files other than the document export
InputUnits(d) ==
    {f \in {d[i] : i \in 1..Len(d)} : EndsWith(f.name, S_dotjson) /\ f.name # F_vector}

\* a unit that is not a sequence of mappings
MalformedUnit(f) ==
    ~(f.data.t = "list" /\ \A i \in 1..Len(f.data.items) : IsDict(f.data.items[i]))

\* C11 as stated: a run over a directory with an input unit that is not a
\* sequence of mappings fails; the unit is never read as holding no
\* resources.
C11_Stated ==
    (ret.op = "generate" /\ \E f \in InputUnits(dir) : MalformedUnit(f))
        => ret.status = "error"

HasFile(d, name) == \E i \in 1..Len(d) : d[i].name = name

\* C12 as stated: a run that completes has written the ontology export and
\* the document export, and a run that fails has written neither (read
\* after the first run, when no earlier run can have left them).
C12_Stated ==
    (ret.op = "generate" /\ clock = 1) =>
        IF ret.status = "success"
        THEN HasFile(dir, F_ontology) /\ HasFile(dir, F_vector)
        ELSE ~HasFile(dir, F_ontology) /\ ~HasFile(dir, F_vector)

\* C13 as stated: when every input unit is a sequence of mappings, a record
\* without an identity field or with a spec or metadata that is no mapping
\* does not stop the run: the run completes, with the edges of the other
\* resources.
C13_Stated ==
    (ret.op = "generate" /\ \A f \in InputUnits(dir) : ~MalformedUnit(f)) =>
        /\ ret.status = "success"
        /\ clock = 1 => relationships = FreshEdges(dir)

\* the type facts of the loaded resources that have an identity
TypeFacts(d) ==
    {<<create_uri(Triple(r)[1], Triple(r)[2], Triple(r)[3]), RDF_type,
       LlaTerm(Triple(r)[1])>> : r \in LoadedRecords(d)}

\* the facts asserted for the edges of rels
EdgeFacts(rels) ==
    {<<rels[k].from_uri, LlaTerm(rels[k].label), rels[k].to_uri>> : k \in 1..Len(rels)}

\* the distinct (from, label, to) of rels
EdgeKeys(rels) ==
    {<<rels[k].from, rels[k].label, rels[k].to>> : k \in 1..Len(rels)}

\* C14 as stated: after graph construction the ontology graph holds exactly
\* one type fact per loaded resource with kind, namespace and name, and one
\* fact (from_uri, namespace+label, to_uri) per distinct (from, label, to)
\* of the relationship list.
C14_Stated ==
    Completed =>
        /\ g = TypeFacts(dir) \cup EdgeFacts(relationships)
        /\ Cardinality(g \ TypeFacts(dir)) = Cardinality(EdgeKeys(relationships))

\* the relationship lines of a resource document, in order
RelationshipLines(doc) ==
    SelectSeq(doc.content, LAMBDA l : l.line \in {"has", "is"})

\* the edges of rels that have id as `from`, as `to`, as either
OutEdges(rels, id) == {k \in 1..Len(rels) : rels[k].from = id}
InEdges(rels, id)  == {k \in 1..Len(rels) : rels[k].to = id}

\* the resource documents of the export whose resource was found
FoundDocs(d) ==
    {i \in DocsOfType(VectorDocs(d), "resource") :
        VectorDocs(d)[i].content # <<[line |-> "not_found", id |-> VectorDocs(d)[i].id]>>}

\* C15 as stated: the document of a resource of the store has an outbound
\* line for every edge with the resource as `from` and an inbound line for
\* every edge with the resource as `to`.
C15_Stated ==
    Completed =>
        \A i \in FoundDocs(dir) :
            LET doc   == VectorDocs(dir)[i]
                lines == RelationshipLines(doc)
            IN  /\ \A k \in OutEdges(relationships, doc.id) :
                       \E j \in 1..Len(lines) :
                           lines[j] = [line |-> "has", label |-> relationships[k].label,
                                       other |-> relationships[k].to]
                /\ \A k \in InEdges(relationships, doc.id) :
                       \E j \in 1..Len(lines) :
                           lines[j] = [line |-> "is", label |-> relationships[k].label,
                                       other |-> relationships[k].from]

\* C15: the document of a resource of the store has one relationship line
\* per edge that has the resource as `from` or as `to`, in the order of the
\* relationship list: an outbound line when the resource is the `from` of
\* the edge (a self-reference included), an inbound line otherwise.
C15_Lines ==
    Completed =>
        \A i \in FoundDocs(dir) :
            LET doc   == VectorDocs(dir)[i]
                lines == RelationshipLines(doc)
                K     == OutEdges(relationships, doc.id) \cup InEdges(relationships, doc.id)
                nth(j) == CHOOSE k \in K : Cardinality({m \in K : m <= k}) = j
            IN  /\ Len(lines) = Cardinality(K)
                /\ \A j \in 1..Len(lines) :
                       lines[j] =
                           IF relationships[nth(j)].from = doc.id
                           THEN [line |-> "has", label |-> relationships[nth(j)].label,
                                 other |-> relationships[nth(j)].to]
                           ELSE [line |-> "is", label |-> relationships[nth(j)].label,
                                 other |-> relationships[nth(j)].from]

\* two resources that reference each other: the document of each shows the
\* outbound and the inbound relationship
C15_Witness ==
    /\ Completed
    /\ clock = 1
    /\ \E i \in FoundDocs(dir) :
           LET doc == VectorDocs(dir)[i]
           IN  \E k \in OutEdges(relationships, doc.id) :
                   \E m \in InEdges(relationships, doc.id) :
                       /\ relationships[k].to = relationships[m].from
                       /\ relationships[k].to # doc.id
                       /\ Len(RelationshipLines(doc)) = 2

\* the header of the document export
VectorHeader(d) ==
    Get((CHOOSE f \in {d[i] : i \in 1..Len(d)} : f.name = F_vector).data, S_metadata)

\* C16: in the document export the header's total document count is the
\* number of document records written and its set of document types is the
\* set of `type` values among those records, empty when there are no edges.
C16_Header ==
    HasVector(dir) =>
        LET docs == VectorDocs(dir)
        IN  /\ VectorHeader(dir).total_documents = Len(docs)
            /\ VectorHeader(dir).document_types = {docs[i].type : i \in 1..Len(docs)}
            /\ (Completed /\ relationships = <<>>) =>
                   /\ VectorHeader(dir).total_documents = 0
                   /\ VectorHeader(dir).document_types = {}

\* an export with documents of both types
C16_Witness ==
    /\ Completed
    /\ VectorHeader(dir).document_types = {"relationship", "resource"}
    /\ VectorHeader(dir).total_documents = 3
    /\ Len(VectorDocs(dir)) = 3

\* the units the store discovers in d: its *.json files, with their contents
DiscoveredUnits(d) == {f \in {d[i] : i \in 1..Len(d)} : EndsWith(f.name, S_dotjson)}

\* C17 as stated: the input units the store discovers, and their contents,
\* are the same after a run as before it.
C17_Stated ==
    [][clock' = clock + 1 => DiscoveredUnits(dir') = DiscoveredUnits(dir)]_vars

----------------------------------------------------------------------------
(* The service with its visualization request: one input unit, the service *)
(* started in the source directory or in the root directory.               *)

WorkingDirectories == {<<>>, SourceDirectory}

InitService ==
    /\ dir \in {OneUnit(<<r>>) : r \in Records} \cup {<<File(FileName(1), u)>> : u \in Units}
    /\ relationships = NewProcessor.relationships
    /\ resource_cache = NewProcessor.resource_cache
    /\ g = NewProcessor.g
    /\ clock = 0
    /\ ret = [op |-> "init"]
    /\ cwd \in WorkingDirectories

\* GET /visualization
Visualize ==
    /\ ret' = get_visualization(cwd, dir)
    /\ UNCHANGED <<dir, relationships, resource_cache, g, clock, cwd>>

NextService == Generate \/ Visualize

SpecService == InitService /\ [][NextService]_vars

\* C18 as stated: a visualization request answers not found as long as no
\* generate has succeeded, and after a successful generate it returns the
\* report the processor wrote in the most recent successful generate (the
\* relationships.html of the processor's output directory).
C18_Stated ==
    ret.op = "visualization" =>
        IF HasFile(dir, F_html)
        THEN /\ ret.status = "ok"
             /\ ret.report =
                    (CHOOSE f \in {dir[i] : i \in 1..Len(dir)} : f.name = F_html).data
        ELSE ret.status = "not_found"

\* the graph of the report the last successful generate wrote
RenderedGraph(d) ==
    (CHOOSE f \in {d[i] : i \in 1..Len(d)} : f.name = F_html).data.graph

\* C19 as stated: every entry of the relationship list has its own edge in
\* the rendered graph, with its own label, also when another entry joins
\* the same ordered pair of identities under another label.
C19_Stated ==
    Completed =>
        \A k \in 1..Len(relationships) :
            LET e == <<relationships[k].from, relationships[k].to>>
            IN  /\ e \in DOMAIN RenderedGraph(dir).edges
                /\ RenderedGraph(dir).edges[e] = relationships[k].label

\* C20 as stated: once a lookup has missed the cache and scanned the input
\* units, no later lookup reads the input units again; here for a lookup
\* and the lookup that follows it.
C20_Stated ==
    [][ ( /\ ret.op = "lookup" /\ ret.scanned
          /\ ret'.op = "lookup" )
        => ~ret'.scanned ]_vars

----------------------------------------------------------------------------
(* Resource Store: the cache after a scan, records that share an identity *)

\* C21 as stated: after a lookup that missed the cache has returned, found
\* or not, the cache holds under its canonical id every record of the input
\* units that has kind, namespace and name.
C21_Stated ==
    (ret.op = "lookup" /\ ret.scanned /\ ~ret.raised) =>
        \A r \in LoadedRecords(dir) :
            /\ ResourceId(r) \in DOMAIN resource_cache
            /\ ResourceId(resource_cache[ResourceId(r)]) = ResourceId(r)

\* the record with the canonical id `id` that the scan of d meets last
LastRecord(d, id) ==
    LET rs == Resources(d)
        K  == {k \in 1..Len(rs) : IsDict(rs[k]) /\ HasIdentity(rs[k]) /\ ResourceId(rs[k]) = id}
    IN  rs[CHOOSE k \in K : \A m \in K : m <= k]

\* C22 as stated: a lookup of an identity that several loaded records share
\* returns the record met last in scan order, whatever lookups came before.
C22_Stated ==
    (ret.op = "lookup" /\ ~ret.raised /\ ret.result # None) =>
        ret.result = LastRecord(dir, ret.id)

----------------------------------------------------------------------------
(* The relationship list: order, identities, document ids *)

\* where the references the extractor reads stand in the input of d:
\* <<r, i, j>> for record r of the scan, key i of its spec and nested key j
\* (0 for a reference directly under spec)
RefPositions(d) ==
    LET rs == Resources(d)
        R  == {r \in 1..Len(rs) : IsDict(rs[r]) /\ HasIdentity(rs[r]) /\ In(S_spec, rs[r])}
    IN  UNION { {<<r, i, 0>> : i \in WellFormedDirect(Get(rs[r], S_spec))}
                  \cup {<<r, f[1], f[2]>> : f \in WellFormedPlainNested(Get(rs[r], S_spec))}
                : r \in R }

\* unit order and record order, then key order, then nested key order
Before(x, y) ==
    \/ x[1] < y[1]
    \/ x[1] = y[1] /\ x[2] < y[2]
    \/ x[1] = y[1] /\ x[2] = y[2] /\ x[3] < y[3]

\* subject, label and object of the reference at position x
RefAt(d, x) ==
    LET r  == Resources(d)[x[1]]
        sp == Get(r, S_spec)
        v  == IF x[3] = 0 THEN DirectValue(sp, x[2]) ELSE NestedValue(sp, <<x[2], x[3]>>)
    IN  [from_uri |-> create_uri(Triple(r)[1], Triple(r)[2], Triple(r)[3]),
         label    |-> IF x[3] = 0 THEN sp.keys[x[2]] ELSE NestedLabel(sp, <<x[2], x[3]>>),
         to_uri   |-> create_uri(Triple(v)[1], Triple(v)[2], Triple(v)[3])]

\* rels holds the references of d in the order of their positions
InInputOrder(rels, d) ==
    /\ Len(rels) = Cardinality(RefPositions(d))
    /\ \A x \in RefPositions(d) :
           LET k == 1 + Cardinality({y \in RefPositions(d) : Before(y, x)})
           IN  /\ rels[k].from_uri = RefAt(d, x).from_uri
               /\ rels[k].label = RefAt(d, x).label
               /\ rels[k].to_uri = RefAt(d, x).to_uri

IsPrefix(s1, s2) == Len(s1) <= Len(s2) /\ SubSeq(s2, 1, Len(s1)) = s1

\* C23: the relationship list only grows at its end: its value before a
\* step is a prefix of its value after it, edges with the same (from, to,
\* label) are each kept, and the first run leaves the edges in the order
\* input units are discovered, then record order, then key order of spec.
C23_AppendOnly ==
    [][ /\ IsPrefix(relationships, relationships')
        /\ (clock = 0 /\ clock' = 1 /\ ret'.status = "success")
               => InInputOrder(relationships', dir) ]_vars

\* a first run over two units that leaves three edges, two of them with
\* the same (from, to, label)
C23_Witness ==
    /\ Completed
    /\ clock = 1
    /\ Cardinality(InputUnits(dir)) = 2
    /\ Len(relationships) = 3
    /\ \E k, m \in 1..Len(relationships) :
           /\ k < m
           /\ relationships[k].from = relationships[m].from
           /\ relationships[k].to = relationships[m].to
           /\ relationships[k].label = relationships[m].label

\* the (kind, namespace, name) a description or a document metadata carries
Described(kind, namespace, name) == <<kind, namespace, name>>

\* C24 as stated: the kind, namespace and name in the metadata of a resource
\* document, and in the source and target descriptions of a relationship
\* document, are the triple from which the identity was derived.
C24_Stated ==
    Completed =>
        LET docs == VectorDocs(dir)
        IN  \A t \in Identities(dir) :
                /\ \A i \in DocsOfType(docs, "resource") :
                       docs[i].id = CanonicalId(t[1], t[2], t[3]) =>
                           Described(docs[i].metadata.resource_type,
                                     docs[i].metadata.namespace,
                                     docs[i].metadata.name) = t
                /\ \A i \in DocsOfType(docs, "relationship") :
                       \A side \in {docs[i].metadata.source_resource,
                                    docs[i].metadata.target_resource} :
                           side.resource_id = CanonicalId(t[1], t[2], t[3]) =>
                               Described(side.kind, side.namespace, side.name) = t

\* C25 as stated: in every edge `from` is the canonical id of a loaded
\* resource, `to` the canonical id of a reference payload, and from_uri and
\* to_uri are the namespace prefix followed by `from` and by `to`.
C25_Stated ==
    Completed =>
        \A k \in 1..Len(relationships) :
            /\ relationships[k].from \in LoadedIds(dir)
            /\ relationships[k].to \in
                   UNION { {ResourceId(v) : v \in ExtractedRefs(r)} : r \in LoadedRecords(dir) }
            /\ relationships[k].from_uri = LLA \o relationships[k].from
            /\ relationships[k].to_uri = LLA \o relationships[k].to

\* C26 as stated: no two documents of the document export have the same id.
C26_Stated ==
    HasVector(dir) =>
        \A i, j \in 1..Len(VectorDocs(dir)) :
            i # j => VectorDocs(dir)[i].id # VectorDocs(dir)[j].id
====
